---------------------------- MODULE Spec2Model ----------------------------
(***************************************************************************)
(* Model of the group-archive extension: the archive store (db.ts), the    *)
(* summary pipeline (summary.ts), the daily scheduler (scheduler.ts), the  *)
(* capture hook (capture.ts) with its embedding step, and the summary and  *)
(* search commands (commands.ts, search.ts).                               *)
(*                                                                         *)
(* Steps.  A step is one run of the callbacks of the event loop up to the  *)
(* next await of the backend: a timer callback (Tick), one call of the     *)
(* pipeline up to its await (SchedCall, CmdCall), the continuation after   *)
(* the backend answered or failed (SchedBackendOk/Fail, CmdBackendOk/Fail),*)
(* one delivery of an inbound event (Capture), start() and stop().  The    *)
(* model lets other callbacks run between the iterations of a for loop     *)
(* even when the pipeline returned without calling the backend; the        *)
(* behaviours of the program are among those of the model.                 *)
(*                                                                         *)
(* History.  received, threw, ranOn and ranBy record what happened (the    *)
(* events archived, the keys the pipeline threw for, the local date of the *)
(* last run start and the timer that fired it); the program does not read  *)
(* them.  lastReturn, lastRun and lastReply show what the step just taken  *)
(* returned, ended or replied.  probe holds the argument and the result of *)
(* a function applied on its own (the transcript of generateSummary, the   *)
(* range of a day, upsertGroup, insertEmbedding).                          *)
(*                                                                         *)
(* Service.  ServiceStop is the stop of the registered service: the timer  *)
(* is cleared and the database closed (dbOpen), after which every call     *)
(* on the store throws.  Restart is the end of the process and the         *)
(* construction of the next one over the same database file.  The summary  *)
(* and search commands are modelled on an open database; no specification  *)
(* combines them with ServiceStop.                                         *)
(*                                                                         *)
(* Events.  Deliveries holds events whose metadata JSON.stringify accepts; *)
(* UnserializableDeliveries holds events of the declared type whose        *)
(* metadata it rejects, handled by CaptureUnserializable.                  *)
(*                                                                         *)
(* Time.  Instants are Unix time in SECONDS (the source uses milliseconds; *)
(* every duration of the source is a whole number of seconds, so each      *)
(* millisecond literal appears here divided by 1000).  Calendar dates are  *)
(* triples <<year, month, day>> standing for the string "YYYY-MM-DD", and  *)
(* times of day are pairs <<hour, minute>> standing for "HH:MM".           *)
(***************************************************************************)
EXTENDS Integers, Sequences, FiniteSets, TLC

(***************************************************************************)
(* Durations                                                               *)
(***************************************************************************)
DAY == 86400000 \div 1000

HOUR == 3600000 \div 1000

MINUTE == 60000 \div 1000

SECOND == 1000 \div 1000

TICK_INTERVAL == 60000 \div 1000

(***************************************************************************)
(* Proleptic Gregorian calendar, as Date.UTC and Intl.DateTimeFormat       *)
(* compute it.  DaysFromCivil is the day number of a date counted from     *)
(* 1970-01-01; CivilFromDays is its inverse.                               *)
(***************************************************************************)
\* the element of a singleton
The(S) == CHOOSE x \in S : TRUE

DaysFromCivil(y0, m, d) ==
  LET y   == IF m <= 2 THEN y0 - 1 ELSE y0
      era == y \div 400
      yoe == y - era * 400
      mp  == IF m > 2 THEN m - 3 ELSE m + 9
      doy == (153 * mp + 2) \div 5 + d - 1
      doe == yoe * 365 + yoe \div 4 - yoe \div 100 + doy
  IN  era * 146097 + doe - 719468

CivilFromDays(z0) ==
  The({ LET era == z \div 146097
            doe == z - era * 146097
            yoe == (doe - doe \div 1460 + doe \div 36524 - doe \div 146096) \div 365
            doy == doe - (365 * yoe + yoe \div 4 - yoe \div 100)
            mp  == (5 * doy + 2) \div 153
            d   == doy - (153 * mp + 2) \div 5 + 1
            m   == IF mp < 10 THEN mp + 3 ELSE mp - 9
            y   == yoe + era * 400
        IN  << IF m <= 2 THEN y + 1 ELSE y, m, d >> : z \in {z0 + 719468} })

\* Date.UTC(year, month - 1, day, h, 0, 0), in seconds
DateUTC(date, h) == DaysFromCivil(date[1], date[2], date[3]) * DAY + h * HOUR

(***************************************************************************)
(* Time zones (the IANA data Intl.DateTimeFormat reads).  ZoneOffset is    *)
(* the zone's offset from UTC, in seconds, at instant t.                   *)
(*   Europe/Berlin     +01:00, +02:00 from 2024-03-31T01:00:00Z            *)
(*   Australia/Sydney  +11:00, +10:00 from 2024-04-06T16:00:00Z            *)
(***************************************************************************)
BerlinSpringForward == DateUTC(<<2024, 3, 31>>, 1)

SydneyFallBack == DateUTC(<<2024, 4, 6>>, 16)

ZoneOffset(tz, t) ==
  CASE tz = "UTC"              -> 0
    [] tz = "Etc/GMT-2"        -> 2 * HOUR
    [] tz = "Asia/Kolkata"     -> 5 * HOUR + 30 * MINUTE
    [] tz = "Asia/Kathmandu"   -> 5 * HOUR + 45 * MINUTE
    [] tz = "Pacific/Marquesas"  -> -(9 * HOUR + 30 * MINUTE)
    [] tz = "Etc/GMT+12"         -> -(12 * HOUR)
    [] tz = "Pacific/Kiritimati" -> 14 * HOUR
    [] tz = "Europe/Berlin"    -> IF t < BerlinSpringForward THEN HOUR ELSE 2 * HOUR
    [] tz = "Australia/Sydney" -> IF t < SydneyFallBack THEN 11 * HOUR ELSE 10 * HOUR

LocalSeconds(tz, t) == t + ZoneOffset(tz, t)

\* Intl.DateTimeFormat("en-CA", {timeZone, year, month, day}).format(t)
FormatDate(tz, t) == CivilFromDays(LocalSeconds(tz, t) \div DAY)

\* seconds since local 00:00:00 shown by the wall clock at t
LocalSecondOfDay(tz, t) == LocalSeconds(tz, t) % DAY

\* Intl.DateTimeFormat("en-GB", {timeZone, hour, minute, hour12: false}).format(t)
FormatHHMM(tz, t) ==
  << LocalSecondOfDay(tz, t) \div HOUR, (LocalSecondOfDay(tz, t) % HOUR) \div MINUTE >>

\* new Date(t).toISOString().slice(0, 10)
IsoDate(t) == CivilFromDays(t \div DAY)

(***************************************************************************)
(* summary.ts: midnightUtcForDate                                          *)
(***************************************************************************)
SetMin(S) == CHOOSE x \in S : \A y \in S : x <= y

\* a midnightUtcForDate that moves the candidate back by its local hour alone
midnightFromWholeHours(dateStr, timezone, rough) ==
  The({ IF found /= {}
        THEN The({ rough + SetMin(found) * HOUR - (tod \div HOUR) * HOUR
                   : tod \in {LocalSecondOfDay(timezone, rough + SetMin(found) * HOUR)} })
        ELSE rough - 12 * HOUR
        : found \in {{ offsetH \in -14..14 :
                         FormatDate(timezone, rough + offsetH * HOUR) = dateStr }} })

\* the loop over offsetH: the first offset whose instant shows dateStr in the
\* zone gives the candidate, which is moved back by its local time of day
midnightFrom(dateStr, timezone, rough) ==
  The({ IF found /= {}
        THEN The({ LET localH == tod \div HOUR
                       localM == (tod % HOUR) \div MINUTE
                       localS == tod % MINUTE
                   IN  rough + SetMin(found) * HOUR
                         - (localH * HOUR + localM * MINUTE + localS * SECOND)
                   : tod \in {LocalSecondOfDay(timezone, rough + SetMin(found) * HOUR)} })
        ELSE rough - 12 * HOUR
        : found \in {{ offsetH \in -14..14 :
                         FormatDate(timezone, rough + offsetH * HOUR) = dateStr }} })

midnightUtcForDate(dateStr, timezone) ==
  The({ midnightFrom(d, timezone, DateUTC(d, 12)) : d \in {dateStr} })

(***************************************************************************)
(* Bounds of the model.  Spec is the whole extension; SpecIngest is the    *)
(* extension with its scheduler never started; SpecSched is the extension  *)
(* while no summary command arrives.                                       *)
(***************************************************************************)
\* rows the messages table may hold
MaxMessages == 1

IngestMaxMessages == 2

SchedMaxMessages == 2

\* length, in days, of the wall-clock window the model explores
MaxClockDays == 1

IngestMaxClockDays == 1

SchedMaxClockDays == 2

\* calls of start() over the life of the process
MaxStarts == 1

EmbedMaxMessages == 2

EmbedMaxClockDays == 1

MaxTranscriptRuns == 3

ServiceMaxMessages == 2

ServiceMaxClockDays == 1

ServiceMaxStarts == 1

RestartMaxMessages == 2

RestartMaxClockDays == 1

RestartMaxStarts == 2

MaxStoredCount == 2

MaxEmbeddingIds == 2

CaptureMaxMessages == 2
CaptureMaxClockDays == 1
CaptureMaxUpserts == 3

MaxDateSpan == 6

SchedMaxStarts == 2

\* scheduler runs that may be in flight at once
MaxSchedRuns == 1

\* summary commands that may be in flight at once
MaxCmdRuns == 1

\* null and undefined: of a string, of a record or date, of a timer handle,
\* of event.timestamp
NULL == "null"

Absent == <<>>

NoTimer == 0

NoTimestamp == -1

(***************************************************************************)
(* Inputs                                                                  *)
(***************************************************************************)
Jids == {"g1@g.us", "g2@g.us"}

\* conversationId?.endsWith("@g.us")
EndsWithGUs(c) == c \in {"g1@g.us", "g2@g.us"}

\* String.prototype.trim
Trim(c) == IF c = "  " THEN "" ELSE c

\* texts the generation backend may answer with
Texts == {"", "S"}

\* config.embedding.dims, and the vectors the embedding backend may answer with
Dims == 2

Vectors == {<<1, 0>>, <<1>>}

Configs ==
  { [timezone |-> "UTC",              scheduledTime |-> <<0, 0>>],
    [timezone |-> "Europe/Berlin",    scheduledTime |-> <<0, 0>>],
    [timezone |-> "Australia/Sydney", scheduledTime |-> <<23, 0>>] }

\* the instant the process is constructed
WindowStart(tz) ==
  IF tz = "Australia/Sydney" THEN DateUTC(<<2024, 4, 6>>, 0)
                             ELSE DateUTC(<<2024, 3, 30>>, 12)

VARIABLES
  config,       \* GroupArchiveConfig: timezone, scheduledTime
  now,          \* Date.now()
  groups,       \* table groups: jid -> row
  messages,     \* table messages: set of rows
  summaries,    \* table daily_summaries: set of rows
  nextUuid,     \* randomUUID(): the next fresh identity
  vecAvailable, \* ArchiveDb.vecAvailable
  embeddings,   \* table message_embeddings: message_id -> vector
  embedTasks,   \* pending embed(content) promises of the capture handler
  unhandled,    \* promise rejections no handler caught
  warnings,     \* logger.warn output of the capture handler
  received,     \* the distinct events the capture handler archived
  timers,       \* handles registered with setInterval and not cleared
  interval,     \* createScheduler: interval
  lastRunDate,  \* createScheduler: lastRunDate
  nextTimer,    \* the next handle setInterval returns
  schedRuns,    \* in-flight invocations of tick(), by slot
  cmdRuns,      \* in-flight invocations of the summary command, by slot
  threw,        \* the (groupJid, date, caller) for which generateAndStoreSummary threw
  ranOn,        \* the local date on which tick() last started a run
  ranBy,        \* the handle of the timer whose tick() last started a run
  lastReturn,   \* what generateAndStoreSummary returned in the step just taken
  lastRun,      \* the tick() that ran to its end in the step just taken
  lastReply,    \* what a command replied in the step just taken
  search,       \* the in-flight invocation of the search command
  dbOpen,       \* ArchiveDb: the database handle is open (close() not called)
  probe         \* the argument and the result of the function last applied

storeVars == <<groups, messages, summaries, nextUuid, vecAvailable, embeddings>>

captureVars == <<embedTasks, unhandled, warnings, received>>

schedVars == <<timers, interval, lastRunDate, nextTimer, schedRuns, ranOn, ranBy>>

vars == <<config, now, groups, messages, summaries, nextUuid, vecAvailable,
          embeddings, embedTasks, unhandled, warnings, received, timers,
          interval, lastRunDate, nextTimer, schedRuns, cmdRuns, threw, ranOn, ranBy,
          lastReturn, lastRun, lastReply, search, dbOpen, probe>>

\* no function was applied
NoProbe == [fn |-> "none", arg |-> <<>>, applied |-> FALSE, out |-> <<>>]

\* lastReturn, lastRun and lastReply describe one step: a step that returns
\* nothing, ends no run and sends no reply clears them
NoReturn == lastReturn' = Absent

NoRun == lastRun' = Absent

NoReply == lastReply' = Absent

(***************************************************************************)
(* db.ts: ArchiveDb                                                        *)
(***************************************************************************)
\* an UPDATE of the row of jid that inserts no row for a jid not yet known
upsertGroupUpdateOnly(g, jid, name, t) ==
  IF jid \in DOMAIN g
  THEN [g EXCEPT ![jid] =
          [@ EXCEPT !.name = IF name /= NULL THEN name ELSE @,
                    !.last_message = t,
                    !.message_count = @ + 1]]
  ELSE g

\* INSERT OR REPLACE INTO groups: the row of a known jid is written anew and
\* the count it had is lost
upsertGroupReplacing(g, jid, name, t) ==
  [j \in DOMAIN g \cup {jid} |->
     IF j = jid
     THEN [name |-> name, first_seen |-> t, last_message |-> t, message_count |-> 1]
     ELSE g[j]]

\* an upsert whose update sets name = excluded.name, without COALESCE
upsertGroupOverwritingName(g, jid, name, t) ==
  IF jid \in DOMAIN g
  THEN [g EXCEPT ![jid] =
          [@ EXCEPT !.name = name,
                    !.last_message = t,
                    !.message_count = @ + 1]]
  ELSE [j \in DOMAIN g \cup {jid} |->
          IF j = jid
          THEN [name |-> name, first_seen |-> t, last_message |-> t,
                message_count |-> 1]
          ELSE g[j]]

\* INSERT INTO groups ... ON CONFLICT(jid) DO UPDATE SET ...
upsertGroup(g, jid, name, t) ==
  IF jid \in DOMAIN g
  THEN [g EXCEPT ![jid] =
          [@ EXCEPT !.name = IF name /= NULL THEN name ELSE @,
                    !.last_message = t,
                    !.message_count = @ + 1]]
  ELSE [j \in DOMAIN g \cup {jid} |->
          IF j = jid
          THEN [name |-> name, first_seen |-> t, last_message |-> t,
                message_count |-> 1]
          ELSE g[j]]

\* INSERT OR IGNORE INTO messages, with the identity insertMessage generated
insertMessage(ms, id, msg) ==
  IF \E r \in ms : r.id = id
  THEN ms
  ELSE ms \cup {[id |-> id, group_jid |-> msg.group_jid,
                 sender_id |-> msg.sender_id, sender_name |-> msg.sender_name,
                 content |-> msg.content, timestamp |-> msg.timestamp,
                 metadata |-> msg.metadata]}

\* the rows of getMessagesByGroupAndDateRange (ORDER BY timestamp ASC applies
\* to their presentation; the pipeline uses their number)
getMessagesByGroupAndDateRange(groupJid, startTs, endTs) ==
  { r \in messages :
      r.group_jid = groupJid /\ r.timestamp >= startTs /\ r.timestamp < endTs }

\* a plain INSERT INTO daily_summaries on a table without the unique index
insertSummaryAppend(ss, id, groupJid, date, summaryText, messageCount, t) ==
  ss \cup {[id |-> id, group_jid |-> groupJid, date |-> date,
            summary_text |-> summaryText, message_count |-> messageCount,
            created_at |-> t]}

\* INSERT OR IGNORE INTO daily_summaries: a row in conflict with the new row
\* stays and the new row is dropped
insertSummaryIgnore(ss, id, groupJid, date, summaryText, messageCount, t) ==
  IF \E r \in ss : r.id = id \/ (r.group_jid = groupJid /\ r.date = date)
  THEN ss
  ELSE ss \cup {[id |-> id, group_jid |-> groupJid, date |-> date,
                 summary_text |-> summaryText, message_count |-> messageCount,
                 created_at |-> t]}

\* INSERT OR REPLACE INTO daily_summaries: rows in conflict with the new row
\* on the primary key or on the unique index (group_jid, date) are deleted
insertSummary(ss, id, groupJid, date, summaryText, messageCount, t) ==
  { r \in ss : ~(r.id = id \/ (r.group_jid = groupJid /\ r.date = date)) }
    \cup {[id |-> id, group_jid |-> groupJid, date |-> date,
           summary_text |-> summaryText, message_count |-> messageCount,
           created_at |-> t]}

SummaryRows(groupJid, date) ==
  { r \in summaries : r.group_jid = groupJid /\ r.date = date }

\* SELECT * FROM daily_summaries WHERE group_jid = ? AND date = ?  (.get)
getSummary(groupJid, date) ==
  IF SummaryRows(groupJid, date) = {}
  THEN Absent
  ELSE CHOOSE r \in SummaryRows(groupJid, date) : TRUE

\* SELECT DISTINCT group_jid FROM messages WHERE timestamp >= ? AND timestamp < ?
getGroupsWithMessagesOnDate(startTs, endTs) ==
  { r.group_jid : r \in { m \in messages : m.timestamp >= startTs /\ m.timestamp < endTs } }

\* the enumerations of a finite set, as sequences without repetition
Orderings(S) ==
  { s \in [1..Cardinality(S) -> S] : \A i, j \in 1..Cardinality(S) : i /= j => s[i] /= s[j] }

\* SELECT * FROM groups ORDER BY last_message DESC: the orders SQLite may answer
listGroups ==
  { s \in Orderings(DOMAIN groups) :
      \A i, j \in 1..Len(s) :
         i < j => groups[s[i]].last_message >= groups[s[j]].last_message }

\* INSERT OR REPLACE INTO message_embeddings
insertEmbedding(es, messageId, embedding) ==
  [m \in DOMAIN es \cup {messageId} |-> IF m = messageId THEN embedding ELSE es[m]]

\* an insertEmbedding whose statement is INSERT OR IGNORE
insertEmbeddingCallIgnoring(available, es, messageId, embedding) ==
  IF ~available
  THEN [threw |-> FALSE, embeddings |-> es]
  ELSE IF Len(embedding) /= Dims
  THEN [threw |-> TRUE, embeddings |-> es]
  ELSE IF messageId \in DOMAIN es
  THEN [threw |-> FALSE, embeddings |-> es]
  ELSE [threw |-> FALSE, embeddings |-> insertEmbedding(es, messageId, embedding)]

\* ArchiveDb.insertEmbedding as a whole: the early return without sqlite-vec,
\* then the statement.  The column is declared FLOAT[dims], so the vec0 table
\* raises on a blob of another width and writes nothing; OR REPLACE is taken
\* as the statement reads, the row of the same message_id being replaced.
insertEmbeddingCall(available, es, messageId, embedding) ==
  IF ~available
  THEN [threw |-> FALSE, embeddings |-> es]
  ELSE IF Len(embedding) /= Dims
  THEN [threw |-> TRUE, embeddings |-> es]
  ELSE [threw |-> FALSE, embeddings |-> insertEmbedding(es, messageId, embedding)]

(***************************************************************************)
(* summary.ts: generateAndStoreSummary up to its await.  The answer is the *)
(* stored text (kind "hit"), the empty text of a day without messages      *)
(* (kind "empty"), or the pending backend call over n messages ("await").  *)
(* On a closed database db.getSummary throws (kind "threw").               *)
(***************************************************************************)
messagesOfDay(groupJid, dayStart) ==
  getMessagesByGroupAndDateRange(groupJid, dayStart, dayStart + DAY)

\* the pipeline without its look-up of the stored summary
generateAndStoreSummaryUncached(groupJid, date) ==
  The({ IF n = 0
        THEN [kind |-> "empty", text |-> "", n |-> 0]
        ELSE [kind |-> "await", text |-> NULL, n |-> n]
        : n \in { Cardinality(messagesOfDay(groupJid, dayStart))
                     : dayStart \in {midnightUtcForDate(date, config.timezone)} } })

\* the pipeline without its early return on a day without messages
generateAndStoreSummaryEager(groupJid, date) ==
  IF getSummary(groupJid, date) /= Absent
  THEN [kind |-> "hit", text |-> getSummary(groupJid, date).summary_text, n |-> 0]
  ELSE The({ [kind |-> "await", text |-> NULL, n |-> n]
             : n \in { Cardinality(messagesOfDay(groupJid, dayStart))
                          : dayStart \in {midnightUtcForDate(date, config.timezone)} } })

generateAndStoreSummary(groupJid, date) ==
  IF ~dbOpen
  THEN [kind |-> "threw", text |-> NULL, n |-> 0]
  ELSE IF getSummary(groupJid, date) /= Absent
  THEN [kind |-> "hit", text |-> getSummary(groupJid, date).summary_text, n |-> 0]
  ELSE The({ IF n = 0
             THEN [kind |-> "empty", text |-> "", n |-> 0]
             ELSE [kind |-> "await", text |-> NULL, n |-> n]
             : n \in { Cardinality(messagesOfDay(groupJid, dayStart))
                          : dayStart \in {midnightUtcForDate(date, config.timezone)} } })

\* a return of generateAndStoreSummary: kind is "hit", "empty", "stored"
\* (the backend answered and the row was written) or "threw"
Returned(groupJid, date, kind, ret) ==
  [jid |-> groupJid, date |-> date, kind |-> kind, ret |-> ret]

(***************************************************************************)
(* summarizer.ts: the transcript generateSummary sends.  A string is the   *)
(* sequence of its runs: <<unit, count>> stands for count copies of one    *)
(* UTF-16 code unit, and adjacent runs have different units.               *)
(***************************************************************************)
TRANSCRIPT_BUDGET == 100000

\* "\n\n[...transcript truncated...]"
TRUNCATION_MARKER ==
  << <<"\n", 2>>, <<"[", 1>>, <<".", 3>>,
     <<"t", 1>>, <<"r", 1>>, <<"a", 1>>, <<"n", 1>>, <<"s", 1>>, <<"c", 1>>,
     <<"r", 1>>, <<"i", 1>>, <<"p", 1>>, <<"t", 1>>, <<" ", 1>>,
     <<"t", 1>>, <<"r", 1>>, <<"u", 1>>, <<"n", 1>>, <<"c", 1>>, <<"a", 1>>,
     <<"t", 1>>, <<"e", 1>>, <<"d", 1>>, <<".", 3>>, <<"]", 1>> >>

RECURSIVE StrLength(_)
\* str.length
StrLength(str) ==
  IF str = <<>> THEN 0 ELSE str[1][2] + StrLength(Tail(str))

RECURSIVE StrSlice(_, _)
\* str.slice(0, n)
StrSlice(str, n) ==
  IF n <= 0 \/ str = <<>> THEN <<>>
  ELSE IF str[1][2] >= n THEN << <<str[1][1], n>> >>
  ELSE <<str[1]>> \o StrSlice(Tail(str), n - str[1][2])

\* a + b
StrConcat(a, b) ==
  IF a = <<>> THEN b
  ELSE IF b = <<>> THEN a
  ELSE IF a[Len(a)][1] = b[1][1]
  THEN SubSeq(a, 1, Len(a) - 1) \o << <<b[1][1], a[Len(a)][2] + b[1][2]>> >> \o Tail(b)
  ELSE a \o b

\* a generateSummary that also cuts a transcript of exactly the budget
generateSummaryTranscriptEager(transcript) ==
  IF StrLength(transcript) >= TRANSCRIPT_BUDGET
  THEN StrConcat(StrSlice(transcript, TRANSCRIPT_BUDGET), TRUNCATION_MARKER)
  ELSE transcript

\* generateSummary: the transcript handed to the provider
generateSummaryTranscript(transcript) ==
  IF StrLength(transcript) > TRANSCRIPT_BUDGET
  THEN StrConcat(StrSlice(transcript, TRANSCRIPT_BUDGET), TRUNCATION_MARKER)
  ELSE transcript

(***************************************************************************)
(* scheduler.ts                                                            *)
(***************************************************************************)
getYesterdayDate(timezone) == FormatDate(timezone, now - DAY)

currentTimeInTimezone(timezone) == FormatHHMM(timezone, now)

SchedSlots == 1..MaxSchedRuns

\* a tick() that is not running.  In a running tick(), all is groupJids, i the
\* position of the for loop, n the messages.length of the pending call,
\* called the groups the pipeline was invoked for and failed the groups whose
\* failure the catch logged with logger.warn
SchedIdle ==
  [pc |-> "idle", date |-> Absent, all |-> <<>>, i |-> 1, n |-> 0,
   called |-> <<>>, failed |-> {}]

\* what a tick() that ran to its end leaves in lastRun
RunDone(run) ==
  [date |-> run.date, all |-> run.all, called |-> run.called, failed |-> run.failed]

\* a for loop whose catch encloses the loop: the first throw ends the run
SchedAfterAborting(run, failed) ==
  IF run.i = Len(run.all) \/ failed /= run.failed
  THEN [frame |-> SchedIdle, done |-> RunDone([run EXCEPT !.failed = failed])]
  ELSE [frame |-> [run EXCEPT !.pc = "loop", !.i = @ + 1, !.n = 0, !.failed = failed],
        done |-> Absent]

\* the for loop of tick() after the call for all[i] returned or threw (failed
\* then holds all[i]): the next iteration, or the end of the run
SchedAfter(run, failed) ==
  IF run.i = Len(run.all)
  THEN [frame |-> SchedIdle, done |-> RunDone([run EXCEPT !.failed = failed])]
  ELSE [frame |-> [run EXCEPT !.pc = "loop", !.i = @ + 1, !.n = 0, !.failed = failed],
        done |-> Absent]

SchedAdvance(run, failed) == SchedAfter(run, failed).frame

SchedAdvanceDone(run, failed) == SchedAfter(run, failed).done

\* start(): setInterval(() => void tick(), 60_000)
Start(maxStarts) ==
  /\ nextTimer <= maxStarts
  /\ timers' = timers \cup {nextTimer}
  /\ interval' = nextTimer
  /\ nextTimer' = nextTimer + 1
  /\ NoReturn /\ NoRun /\ NoReply
  /\ UNCHANGED <<config, dbOpen, search, probe, now, storeVars, captureVars, lastRunDate, schedRuns, ranOn, ranBy,
                 cmdRuns, threw>>

\* a stop() that also forgets the date of the last run
StopForgetting ==
  /\ IF interval /= NoTimer
     THEN /\ timers' = timers \ {interval}
          /\ interval' = NoTimer
     ELSE UNCHANGED <<timers, interval>>
  /\ lastRunDate' = Absent
  /\ NoReturn /\ NoRun /\ NoReply
  /\ UNCHANGED <<config, dbOpen, search, probe, now, storeVars, captureVars, nextTimer,
                 schedRuns, ranOn, ranBy, cmdRuns, threw>>

\* stop(): if (interval) { clearInterval(interval); interval = null }
Stop ==
  /\ IF interval /= NoTimer
     THEN /\ timers' = timers \ {interval}
          /\ interval' = NoTimer
     ELSE UNCHANGED <<timers, interval>>
  /\ NoReturn /\ NoRun /\ NoReply
  /\ UNCHANGED <<config, dbOpen, search, probe, now, storeVars, captureVars, lastRunDate, nextTimer,
                 schedRuns, ranOn, ranBy, cmdRuns, threw>>

\* the mark an unhandled rejection of tick() leaves in unhandled, which
\* otherwise holds the identities of messages
RejectedTick == 0

\* a stop of the service that also abandons the runs of tick() in flight
ServiceStopAborting ==
  /\ IF interval /= NoTimer
     THEN /\ timers' = timers \ {interval}
          /\ interval' = NoTimer
     ELSE UNCHANGED <<timers, interval>>
  /\ dbOpen' = FALSE
  /\ schedRuns' = [s \in SchedSlots |-> SchedIdle]
  /\ NoReturn /\ NoRun /\ NoReply
  /\ UNCHANGED <<config, search, probe, now, storeVars, captureVars, lastRunDate, nextTimer,
                 ranOn, ranBy, cmdRuns, threw>>

\* the stop of the service: scheduler.stop(); db.close()
ServiceStop ==
  /\ IF interval /= NoTimer
     THEN /\ timers' = timers \ {interval}
          /\ interval' = NoTimer
     ELSE UNCHANGED <<timers, interval>>
  /\ dbOpen' = FALSE
  /\ NoReturn /\ NoRun /\ NoReply
  /\ UNCHANGED <<config, search, probe, now, storeVars, captureVars, lastRunDate, nextTimer,
                 schedRuns, ranOn, ranBy, cmdRuns, threw>>

\* a registered timer fires: tick() up to its for loop
Tick(h) ==
  /\ h \in timers
  /\ \E s \in SchedSlots :
       /\ schedRuns[s].pc = "idle"
       /\ \A r \in SchedSlots : r < s => schedRuns[r].pc /= "idle"
       /\ \E yesterday \in {getYesterdayDate(config.timezone)} :
            IF currentTimeInTimezone(config.timezone) /= config.scheduledTime
            THEN UNCHANGED <<lastRunDate, schedRuns, ranOn, ranBy>> /\ NoRun
            ELSE IF lastRunDate = yesterday
            THEN UNCHANGED <<lastRunDate, schedRuns, ranOn, ranBy>> /\ NoRun
            ELSE /\ lastRunDate' = yesterday
                 /\ ranOn' = FormatDate(config.timezone, now)
                 /\ ranBy' = h
                 /\ IF ~dbOpen THEN UNCHANGED schedRuns /\ NoRun ELSE
                    \E dayStart \in {midnightUtcForDate(yesterday, config.timezone)} :
                    \E groupJids \in Orderings(getGroupsWithMessagesOnDate(dayStart, dayStart + DAY)) :
                    \E run \in {[pc |-> "loop", date |-> yesterday, all |-> groupJids,
                                  i |-> 1, n |-> 0, called |-> <<>>, failed |-> {}]} :
                         IF groupJids = <<>>
                         THEN UNCHANGED schedRuns /\ lastRun' = RunDone(run)
                         ELSE schedRuns' = [schedRuns EXCEPT ![s] = run] /\ NoRun
  \* on a closed database getGroupsWithMessagesOnDate throws after lastRunDate
  \* was assigned: the promise of void tick() rejects and no one handles it
  /\ unhandled' = IF /\ currentTimeInTimezone(config.timezone) = config.scheduledTime
                     /\ lastRunDate /= getYesterdayDate(config.timezone)
                     /\ ~dbOpen
                  THEN unhandled \cup {RejectedTick} ELSE unhandled
  /\ NoReturn /\ NoReply
  /\ UNCHANGED <<config, dbOpen, search, probe, now, storeVars, embedTasks, warnings,
                 received, timers, interval, nextTimer, cmdRuns, threw>>

\* tick(): await generateAndStoreSummary(db, config, groupJid, yesterday, logger)
SchedCall(s) ==
  /\ schedRuns[s].pc = "loop"
  /\ LET groupJid == schedRuns[s].all[schedRuns[s].i]
         run == [schedRuns[s] EXCEPT !.called = Append(@, groupJid)]
     IN  \E r \in {generateAndStoreSummary(groupJid, run.date)} :
         IF r.kind = "await"
         THEN /\ schedRuns' = [schedRuns EXCEPT ![s] = [run EXCEPT !.pc = "await", !.n = r.n]]
              /\ NoReturn /\ NoRun
              /\ UNCHANGED threw
         ELSE \E failed \in {IF r.kind = "threw" THEN run.failed \cup {groupJid}
                                                 ELSE run.failed} :
              /\ schedRuns' = [schedRuns EXCEPT ![s] = SchedAdvance(run, failed)]
              /\ lastRun' = SchedAdvanceDone(run, failed)
              /\ lastReturn' = Returned(groupJid, run.date, r.kind, r.text)
              /\ threw' = IF r.kind = "threw"
                          THEN threw \cup {<<groupJid, run.date, "tick">>} ELSE threw
  /\ NoReply
  /\ UNCHANGED <<config, dbOpen, search, probe, now, storeVars, captureVars, timers, interval,
                 lastRunDate, nextTimer, ranOn, ranBy, cmdRuns>>

\* generateAndStoreSummary throws inside the try of tick(): the catch warns
\* and the for loop goes on
SchedCaught(s) ==
  /\ LET run == schedRuns[s]
         groupJid == run.all[run.i]
     IN  /\ schedRuns' = [schedRuns EXCEPT ![s] = SchedAdvance(run, run.failed \cup {groupJid})]
         /\ lastRun' = SchedAdvanceDone(run, run.failed \cup {groupJid})
         /\ lastReturn' = Returned(groupJid, run.date, "threw", NULL)
         /\ threw' = threw \cup {<<groupJid, run.date, "tick">>}
  /\ NoReply
  /\ UNCHANGED <<config, dbOpen, search, probe, now, storeVars, captureVars, timers, interval,
                 lastRunDate, nextTimer, ranOn, ranBy, cmdRuns>>

\* the backend answers: db.insertSummary(...); return summaryText.  On a
\* closed database insertSummary throws.
SchedBackendOk(s, summaryText) ==
  /\ schedRuns[s].pc = "await"
  /\ IF ~dbOpen THEN SchedCaught(s) ELSE
     /\ LET run == schedRuns[s]
            groupJid == run.all[run.i]
        IN  /\ summaries' = insertSummary(summaries, nextUuid, groupJid, run.date,
                                          summaryText, run.n, now)
            /\ nextUuid' = nextUuid + 1
            /\ schedRuns' = [schedRuns EXCEPT ![s] = SchedAdvance(run, run.failed)]
            /\ lastRun' = SchedAdvanceDone(run, run.failed)
            /\ lastReturn' = Returned(groupJid, run.date, "stored", summaryText)
     /\ NoReply
     /\ UNCHANGED <<config, dbOpen, search, probe, now, groups, messages, vecAvailable,
                    embeddings, captureVars, timers, interval, lastRunDate, nextTimer,
                    ranOn, ranBy, cmdRuns, threw>>

\* a pipeline that swallows the failure of the backend and stores an empty summary
SchedBackendFailStoring(s) ==
  /\ schedRuns[s].pc = "await"
  /\ LET run == schedRuns[s]
         groupJid == run.all[run.i]
     IN  /\ summaries' = insertSummary(summaries, nextUuid, groupJid, run.date,
                                       "", run.n, now)
         /\ nextUuid' = nextUuid + 1
         /\ schedRuns' = [schedRuns EXCEPT ![s] = SchedAdvance(run, run.failed)]
         /\ lastRun' = SchedAdvanceDone(run, run.failed)
         /\ lastReturn' = Returned(groupJid, run.date, "stored", "")
  /\ NoReply
  /\ UNCHANGED <<config, dbOpen, search, probe, now, groups, messages, vecAvailable, embeddings,
                 captureVars, timers, interval, lastRunDate, nextTimer, ranOn, ranBy,
                 cmdRuns, threw>>

\* a tick() that forgets the date when the pipeline fails for a group, so that
\* the next tick of the day runs again
SchedBackendFailRetrying(s) ==
  /\ schedRuns[s].pc = "await"
  /\ LET run == schedRuns[s]
         groupJid == run.all[run.i]
     IN  /\ schedRuns' = [schedRuns EXCEPT ![s] = SchedAdvance(run, run.failed \cup {groupJid})]
         /\ lastRun' = SchedAdvanceDone(run, run.failed \cup {groupJid})
         /\ lastReturn' = Returned(groupJid, run.date, "threw", NULL)
         /\ threw' = threw \cup {<<groupJid, run.date, "tick">>}
         /\ lastRunDate' = Absent
  /\ NoReply
  /\ UNCHANGED <<config, dbOpen, search, probe, now, storeVars, captureVars, timers, interval,
                 nextTimer, ranOn, ranBy, cmdRuns>>

\* the backend fails: generateAndStoreSummary throws, tick() catches and warns
SchedBackendFail(s) ==
  /\ schedRuns[s].pc = "await"
  /\ LET run == schedRuns[s]
         groupJid == run.all[run.i]
     IN  /\ schedRuns' = [schedRuns EXCEPT ![s] = SchedAdvance(run, run.failed \cup {groupJid})]
         /\ lastRun' = SchedAdvanceDone(run, run.failed \cup {groupJid})
         /\ lastReturn' = Returned(groupJid, run.date, "threw", NULL)
         /\ threw' = threw \cup {<<groupJid, run.date, "tick">>}
  /\ NoReply
  /\ UNCHANGED <<config, dbOpen, search, probe, now, storeVars, captureVars, timers, interval,
                 lastRunDate, nextTimer, ranOn, ranBy, cmdRuns>>

(***************************************************************************)
(* capture.ts                                                              *)
(***************************************************************************)
\* the message_received events the host may deliver, each with its hook
\* context: three the handler archives and three it ignores
Event(content, timestamp, metadata) ==
  [from |-> "s1", content |-> content, timestamp |-> timestamp, metadata |-> metadata]

HookCtx(channelId, conversationId) ==
  [channelId |-> channelId, conversationId |-> conversationId]

Deliveries ==
  LET named == [groupName |-> "Family", pushName |-> "Al"]
      sent  == WindowStart(config.timezone)
  IN  { <<Event("hi", NoTimestamp, named),  HookCtx("whatsapp", "g1@g.us")>>,
        <<Event("hi", sent, Absent),        HookCtx("whatsapp", "g1@g.us")>>,
        <<Event("hi", NoTimestamp, Absent), HookCtx("whatsapp", "g2@g.us")>>,
        <<Event("hi", NoTimestamp, Absent), HookCtx("telegram", "g1@g.us")>>,
        <<Event("hi", NoTimestamp, Absent), HookCtx("whatsapp", "u1@s.whatsapp.net")>>,
        <<Event("  ", NoTimestamp, Absent), HookCtx("whatsapp", "g1@g.us")>> }

\* the hook awaiting the embedding before it returns: while an embedding is
\* pending or has failed, the next event is not archived
CaptureAwaitingEmbedding(event, hookCtx) ==
  /\ embedTasks = {} /\ unhandled = {} /\ warnings = {}
  /\ LET content    == Trim(event.content)
         groupJid   == hookCtx.conversationId
         groupName  == IF event.metadata /= Absent THEN event.metadata.groupName ELSE NULL
         senderName == IF event.metadata /= Absent THEN event.metadata.pushName ELSE NULL
         messageId  == nextUuid
     IN  IF \/ hookCtx.channelId /= "whatsapp"
            \/ ~EndsWithGUs(hookCtx.conversationId)
            \/ content = ""
         THEN UNCHANGED <<groups, messages, nextUuid, embedTasks, received>>
         ELSE /\ groups' = upsertGroup(groups, groupJid, groupName, now)
              /\ messages' = insertMessage(messages, messageId,
                               [group_jid |-> groupJid, sender_id |-> event.from,
                                sender_name |-> senderName, content |-> content,
                                timestamp |-> IF event.timestamp /= NoTimestamp
                                              THEN event.timestamp ELSE now,
                                metadata |-> event.metadata])
              /\ nextUuid' = nextUuid + 1
              /\ embedTasks' = IF vecAvailable THEN embedTasks \cup {messageId}
                                               ELSE embedTasks
              /\ received' = received \cup {<<event, hookCtx>>}
  /\ NoReturn /\ NoRun /\ NoReply
  /\ UNCHANGED <<config, dbOpen, search, probe, now, summaries, vecAvailable, embeddings, unhandled,
                 warnings, schedVars, cmdRuns, threw>>

\* the message_received hook
Capture(event, hookCtx) ==
  /\ LET content    == Trim(event.content)
         groupJid   == hookCtx.conversationId
         groupName  == IF event.metadata /= Absent THEN event.metadata.groupName ELSE NULL
         senderName == IF event.metadata /= Absent THEN event.metadata.pushName ELSE NULL
         messageId  == nextUuid
     IN  IF \/ hookCtx.channelId /= "whatsapp"
            \/ ~EndsWithGUs(hookCtx.conversationId)
            \/ content = ""
         THEN UNCHANGED <<groups, messages, nextUuid, embedTasks, received>>
         \* on a closed database upsertGroup throws and the hook ends there
         ELSE IF ~dbOpen
         THEN UNCHANGED <<groups, messages, nextUuid, embedTasks, received>>
         ELSE /\ groups' = upsertGroup(groups, groupJid, groupName, now)
              /\ messages' = insertMessage(messages, messageId,
                               [group_jid |-> groupJid, sender_id |-> event.from,
                                sender_name |-> senderName, content |-> content,
                                timestamp |-> IF event.timestamp /= NoTimestamp
                                              THEN event.timestamp ELSE now,
                                metadata |-> event.metadata])
              /\ nextUuid' = nextUuid + 1
              /\ embedTasks' = IF vecAvailable THEN embedTasks \cup {messageId}
                                               ELSE embedTasks
              /\ received' = received \cup {<<event, hookCtx>>}
  /\ NoReturn /\ NoRun /\ NoReply
  /\ UNCHANGED <<config, dbOpen, search, probe, now, summaries, vecAvailable, embeddings, unhandled,
                 warnings, schedVars, cmdRuns, threw>>

\* JSON.stringify(event.metadata) throws a TypeError on a value it cannot
\* serialize: a BigInt, or an object that contains itself (the field "self")
JsonStringifyThrows(metadata) ==
  IF metadata = Absent THEN FALSE ELSE "self" \in DOMAIN metadata

\* events whose metadata, a Record<string, unknown>, holds such a value
UnserializableDeliveries ==
  LET cyclic == [groupName |-> "Family", pushName |-> "Al", self |-> "cyclic"]
  IN  { <<Event("hi", NoTimestamp, cyclic), HookCtx("whatsapp", "g1@g.us")>>,
        <<Event("hi", NoTimestamp, cyclic), HookCtx("whatsapp", "g2@g.us")>>,
        <<Event("hi", NoTimestamp, cyclic), HookCtx("telegram", "g1@g.us")>> }

\* the message_received hook on an event whose metadata cannot be serialized:
\* upsertGroup has run when the argument of insertMessage is built, and the
\* throw of JSON.stringify leaves the hook before insertMessage is called
CaptureUnserializable(event, hookCtx) ==
  /\ JsonStringifyThrows(event.metadata)
  /\ LET content   == Trim(event.content)
         groupJid  == hookCtx.conversationId
         groupName == event.metadata.groupName
     IN  IF \/ hookCtx.channelId /= "whatsapp"
            \/ ~EndsWithGUs(hookCtx.conversationId)
            \/ content = ""
         THEN UNCHANGED groups
         ELSE IF ~dbOpen
         THEN UNCHANGED groups
         ELSE groups' = upsertGroup(groups, groupJid, groupName, now)
  /\ NoReturn /\ NoRun /\ NoReply
  /\ UNCHANGED <<config, dbOpen, search, probe, now, messages, summaries, nextUuid,
                 vecAvailable, embeddings, captureVars, schedVars, cmdRuns, threw>>

\* embed(content) resolves: (vec) => ctx.db.insertEmbedding(messageId, vec).
\* The vec0 table rejects a vector of another width; the throw inside the
\* fulfilment handler is caught by no one.
EmbedResolve(messageId, vec) ==
  /\ messageId \in embedTasks
  /\ embedTasks' = embedTasks \ {messageId}
  /\ IF ~vecAvailable
     THEN UNCHANGED <<embeddings, unhandled>>
     ELSE IF Len(vec) /= Dims
     THEN /\ unhandled' = unhandled \cup {messageId}
          /\ UNCHANGED embeddings
     ELSE /\ embeddings' = insertEmbedding(embeddings, messageId, vec)
          /\ UNCHANGED unhandled
  /\ NoReturn /\ NoRun /\ NoReply
  /\ UNCHANGED <<config, dbOpen, search, probe, now, groups, messages, summaries, nextUuid, vecAvailable,
                 warnings, received, schedVars, cmdRuns, threw>>

\* embed(content) rejects: (err) => ctx.logger.warn(...)
EmbedReject(messageId) ==
  /\ messageId \in embedTasks
  /\ embedTasks' = embedTasks \ {messageId}
  /\ warnings' = warnings \cup {<<"embedding", messageId>>}
  /\ NoReturn /\ NoRun /\ NoReply
  /\ UNCHANGED <<config, dbOpen, search, probe, now, storeVars, unhandled, received, schedVars, cmdRuns,
                 threw>>

(***************************************************************************)
(* commands.ts: the summary command                                        *)
(***************************************************************************)
CmdSlots == 1..MaxCmdRuns

\* a handler that is not running.  In a running handler, all is targetGroups,
\* i the position of the for loop, n the messages.length of the pending call
\* and failed the groups whose failure the catch logged with logger.warn
CmdIdle ==
  [pc |-> "idle", date |-> Absent, all |-> <<>>, i |-> 1, n |-> 0,
   parts |-> <<>>, failed |-> {}]

\* ctx.to?.endsWith("@g.us") === true
isGroupContext(ctx) == EndsWithGUs(ctx.to)

\* g.name?.toLowerCase().includes(groupName.toLowerCase())
NameIncludes(name, groupName) ==
  name /= NULL /\ <<name, groupName>> \in {<<"Family", "fam">>, <<"Family", "FAMILY">>}

\* the tokens of ctx.args: a token matching /^\d{4}-\d{2}-\d{2}$/ sets the
\* date, any other token sets the group name; the last of each kind wins
DateToken(d) == [isDate |-> TRUE, date |-> d]

WordToken(w) == [isDate |-> FALSE, word |-> w]

LastToken(tokens, isDate) ==
  LET idx == { k \in 1..Len(tokens) : tokens[k].isDate = isDate }
  IN  IF idx = {} THEN Absent
      ELSE tokens[CHOOSE k \in idx : \A l \in idx : l <= k]

\* the arguments a user may send
CmdArgs ==
  LET yesterday == DateToken(FormatDate(config.timezone, now - DAY))
  IN  { <<>>, <<WordToken("fam"), yesterday>>, <<WordToken("xyz")>> }

CmdCtxs == [to : {NULL, "g1@g.us"}, args : CmdArgs]

\* the reply of the handler after its for loop
CmdReply(date, parts, failed) ==
  IF Len(parts) = 0
  THEN [kind |-> "no-messages", date |-> date, failed |-> failed]
  ELSE [kind |-> "summaries", parts |-> parts, failed |-> failed]

\* the parts after the call for all[i] returned summaryText (NULL: it threw)
CmdParts(run, summaryText) ==
  LET group == run.all[run.i]
      label == IF group.name /= NULL THEN group.name ELSE group.jid
  IN  IF summaryText /= NULL /\ summaryText /= ""
      THEN Append(run.parts, [label |-> label, date |-> run.date, text |-> summaryText])
      ELSE run.parts

\* the for loop of the handler after the call for all[i] returned or threw
CmdAdvance(run, summaryText, failed) ==
  IF run.i = Len(run.all)
  THEN CmdIdle
  ELSE [run EXCEPT !.pc = "loop", !.i = @ + 1, !.n = 0,
                   !.parts = CmdParts(run, summaryText), !.failed = failed]

CmdAdvanceReply(run, summaryText, failed) ==
  IF run.i = Len(run.all)
  THEN CmdReply(run.date, CmdParts(run, summaryText), failed)
  ELSE Absent

\* handler(ctx) up to its for loop
CmdStart(s, ctx) ==
  /\ cmdRuns[s].pc = "idle"
  /\ \A r \in CmdSlots : r < s => cmdRuns[r].pc /= "idle"
  /\ LET date      == IF LastToken(ctx.args, TRUE) /= Absent
                      THEN LastToken(ctx.args, TRUE).date
                      ELSE IsoDate(now - DAY)
         groupName == IF LastToken(ctx.args, FALSE) /= Absent
                      THEN LastToken(ctx.args, FALSE).word
                      ELSE NULL
         Finish(reply) == lastReply' = reply /\ UNCHANGED cmdRuns
     IN  IF isGroupContext(ctx)
         THEN Finish([kind |-> "blank"])
         ELSE IF DOMAIN groups = {}
         THEN Finish([kind |-> "no-groups"])
         ELSE \E order \in listGroups :
                LET rows == [k \in 1..Len(order) |->
                               [jid |-> order[k], name |-> groups[order[k]].name]]
                    matched == SelectSeq(rows, LAMBDA g : NameIncludes(g.name, groupName))
                    targetGroups == IF groupName /= NULL THEN matched ELSE rows
                IN  IF groupName /= NULL /\ Len(matched) = 0
                    THEN Finish([kind |-> "no-match", groupName |-> groupName])
                    ELSE /\ cmdRuns' = [cmdRuns EXCEPT ![s] =
                              [pc |-> "loop", date |-> date, all |-> targetGroups,
                               i |-> 1, n |-> 0, parts |-> <<>>, failed |-> {}]]
                         /\ NoReply
  /\ NoReturn /\ NoRun
  /\ UNCHANGED <<config, dbOpen, search, probe, now, storeVars, captureVars, schedVars, threw>>

\* handler: await generateAndStoreSummary(deps.db, deps.config, group.jid, date, ...)
CmdCall(s) ==
  /\ cmdRuns[s].pc = "loop"
  /\ LET run == cmdRuns[s]
         groupJid == run.all[run.i].jid
     IN  \E r \in {generateAndStoreSummary(groupJid, run.date)} :
         IF r.kind = "await"
         THEN /\ cmdRuns' = [cmdRuns EXCEPT ![s] = [run EXCEPT !.pc = "await", !.n = r.n]]
              /\ NoReturn /\ NoReply
              /\ UNCHANGED threw
         ELSE \E failed \in {IF r.kind = "threw" THEN run.failed \cup {groupJid}
                                                 ELSE run.failed} :
              /\ cmdRuns' = [cmdRuns EXCEPT ![s] = CmdAdvance(run, r.text, failed)]
              /\ lastReply' = CmdAdvanceReply(run, r.text, failed)
              /\ lastReturn' = Returned(groupJid, run.date, r.kind, r.text)
              /\ threw' = IF r.kind = "threw"
                          THEN threw \cup {<<groupJid, run.date, "command">>} ELSE threw
  /\ NoRun
  /\ UNCHANGED <<config, dbOpen, search, probe, now, storeVars, captureVars, schedVars>>

\* the backend answers: db.insertSummary(...); return summaryText
CmdBackendOk(s, summaryText) ==
  /\ cmdRuns[s].pc = "await"
  /\ LET run == cmdRuns[s]
         groupJid == run.all[run.i].jid
     IN  /\ summaries' = insertSummary(summaries, nextUuid, groupJid, run.date,
                                       summaryText, run.n, now)
         /\ nextUuid' = nextUuid + 1
         /\ cmdRuns' = [cmdRuns EXCEPT ![s] = CmdAdvance(run, summaryText, run.failed)]
         /\ lastReply' = CmdAdvanceReply(run, summaryText, run.failed)
         /\ lastReturn' = Returned(groupJid, run.date, "stored", summaryText)
  /\ NoRun
  /\ UNCHANGED <<config, dbOpen, search, probe, now, groups, messages, vecAvailable, embeddings,
                 captureVars, schedVars, threw>>

\* the backend fails: generateAndStoreSummary throws, the handler catches and warns
CmdBackendFail(s) ==
  /\ cmdRuns[s].pc = "await"
  /\ LET run == cmdRuns[s]
         groupJid == run.all[run.i].jid
     IN  /\ cmdRuns' = [cmdRuns EXCEPT ![s] =
                          CmdAdvance(run, NULL, run.failed \cup {groupJid})]
         /\ lastReply' = CmdAdvanceReply(run, NULL, run.failed \cup {groupJid})
         /\ lastReturn' = Returned(groupJid, run.date, "threw", NULL)
         /\ threw' = threw \cup {<<groupJid, run.date, "command">>}
  /\ NoRun
  /\ UNCHANGED <<config, dbOpen, search, probe, now, storeVars, captureVars, schedVars>>

(***************************************************************************)
(* commands.ts: the search command, search.ts and ArchiveDb.searchSimilar  *)
(***************************************************************************)
\* a handler that is not running.  A running handler awaits embed(query);
\* groupJid is the group its first word selected, NULL for none
SearchIdle == [pc |-> "idle", groupJid |-> NULL]

\* the words of ctx.args after trim() and split(/\s+/)
SearchArgs == { <<>>, <<"q">>, <<"fam", "q">>, <<"xyz", "q">> }

SearchCtxs == [to : {NULL, "g1@g.us"}, args : SearchArgs]

\* the vectors embed(query) may resolve with; an answer with an empty
\* embedding passes the test EmbeddingClient.embed makes of its answer
QueryVectors == Vectors \cup {<<>>}

\* searchSimilar(queryVec, limit, groupJid): the rows of message_embeddings
\* joined with messages.  vec_distance_cosine raises an error on a row when
\* the width of queryVec is not that of the stored vector.
searchSimilar(queryVec, groupJid) ==
  LET rows == { id \in DOMAIN embeddings :
                  \E m \in messages :
                    m.id = id /\ (groupJid = NULL \/ m.group_jid = groupJid) }
  IN  IF ~vecAvailable \/ Len(queryVec) = 0
      THEN [threw |-> FALSE, rows |-> {}]
      ELSE IF \E id \in rows : Len(embeddings[id]) /= Len(queryVec)
      THEN [threw |-> TRUE, rows |-> {}]
      ELSE [threw |-> FALSE, rows |-> rows]

\* formatSearchResults(results, groupNames)
formatSearchResults(results) ==
  IF results = {} THEN [kind |-> "no-results"]
                  ELSE [kind |-> "results", rows |-> results]

\* a handler that does not test db.vectorEnabled
SearchStartUnchecked(ctx) ==
  /\ search.pc = "idle"
  /\ IF isGroupContext(ctx)
     THEN lastReply' = [kind |-> "blank"] /\ UNCHANGED search
     ELSE IF Len(ctx.args) = 0
     THEN lastReply' = [kind |-> "usage"] /\ UNCHANGED search
     ELSE \E order \in listGroups :
            LET hits == { k \in 1..Len(order) :
                            NameIncludes(groups[order[k]].name, ctx.args[1]) }
                matchedGroup == IF Len(ctx.args) > 1 /\ hits /= {}
                                THEN order[SetMin(hits)] ELSE NULL
            IN  /\ search' = [pc |-> "await", groupJid |-> matchedGroup]
                /\ NoReply
  /\ NoReturn /\ NoRun
  /\ UNCHANGED <<config, dbOpen, now, probe, storeVars, captureVars, schedVars, cmdRuns,
                 threw>>

\* handler(ctx) up to await semanticSearch(...)
SearchStart(ctx) ==
  /\ search.pc = "idle"
  /\ IF isGroupContext(ctx)
     THEN lastReply' = [kind |-> "blank"] /\ UNCHANGED search
     ELSE IF ~vecAvailable
     THEN lastReply' = [kind |-> "unavailable"] /\ UNCHANGED search
     ELSE IF Len(ctx.args) = 0
     THEN lastReply' = [kind |-> "usage"] /\ UNCHANGED search
     ELSE \E order \in listGroups :
            LET hits == { k \in 1..Len(order) :
                            NameIncludes(groups[order[k]].name, ctx.args[1]) }
                matchedGroup == IF Len(ctx.args) > 1 /\ hits /= {}
                                THEN order[SetMin(hits)] ELSE NULL
            IN  /\ search' = [pc |-> "await", groupJid |-> matchedGroup]
                /\ NoReply
  /\ NoReturn /\ NoRun
  /\ UNCHANGED <<config, dbOpen, now, probe, storeVars, captureVars, schedVars, cmdRuns,
                 threw>>

\* embed(query) resolves with queryVec: searchSimilar answers or throws
\* inside the try block
SearchEmbedOk(queryVec) ==
  /\ search.pc = "await"
  /\ LET r == searchSimilar(queryVec, search.groupJid)
     IN  IF r.threw
         THEN /\ lastReply' = [kind |-> "search-failed"]
              /\ warnings' = warnings \cup {<<"search", 0>>}
         ELSE /\ lastReply' = formatSearchResults(r.rows)
              /\ UNCHANGED warnings
  /\ search' = SearchIdle
  /\ NoReturn /\ NoRun
  /\ UNCHANGED <<config, dbOpen, now, probe, storeVars, embedTasks, unhandled, received,
                 schedVars, cmdRuns, threw>>

\* embed(query) rejects: the catch logs and replies
SearchEmbedFail ==
  /\ search.pc = "await"
  /\ lastReply' = [kind |-> "search-failed"]
  /\ warnings' = warnings \cup {<<"search", 0>>}
  /\ search' = SearchIdle
  /\ NoReturn /\ NoRun
  /\ UNCHANGED <<config, dbOpen, now, probe, storeVars, embedTasks, unhandled, received,
                 schedVars, cmdRuns, threw>>

(***************************************************************************)
(* The process                                                             *)
(***************************************************************************)
\* the process ends and the host registers the plugin anew: the database
\* file keeps its rows; timers, promises in flight and the variables of
\* createScheduler are those of a new process
Restart ==
  /\ dbOpen' = TRUE
  /\ timers' = {}
  /\ interval' = NoTimer
  /\ lastRunDate' = Absent
  /\ schedRuns' = [s \in SchedSlots |-> SchedIdle]
  /\ cmdRuns' = [s \in CmdSlots |-> CmdIdle]
  /\ search' = SearchIdle
  /\ embedTasks' = {}
  /\ NoReturn /\ NoRun /\ NoReply
  /\ UNCHANGED <<config, probe, now, storeVars, unhandled, warnings, received, nextTimer,
                 ranOn, ranBy, threw>>

(***************************************************************************)
(* The wall clock.  After the construction of the process it is read at    *)
(* the instants of the window at which the local time of day is the        *)
(* trigger minute.                                                         *)
(***************************************************************************)
ClockInstants(maxDays) ==
  LET start == WindowStart(config.timezone)
      grid  == { start + k * 30 * MINUTE : k \in 0..(maxDays * 48) }
  IN  { t \in grid : FormatHHMM(config.timezone, t) = config.scheduledTime }

AdvanceClock(maxDays) ==
  /\ \E t \in ClockInstants(maxDays) : t > now /\ now' = t
  /\ NoReturn /\ NoRun /\ NoReply
  /\ UNCHANGED <<config, dbOpen, search, probe, storeVars, captureVars, schedVars, cmdRuns, threw>>

\* the host delivers an event while the messages table has room
Deliver(maxMessages) ==
  /\ Cardinality(messages) < maxMessages
  /\ \E d \in Deliveries : Capture(d[1], d[2])

\* the host delivers an event with unserializable metadata
DeliverUnserializable(maxUpserts) ==
  /\ \A jid \in DOMAIN groups : groups[jid].message_count < maxUpserts
  /\ \E d \in UnserializableDeliveries : CaptureUnserializable(d[1], d[2])

(***************************************************************************)
(* The specifications                                                      *)
(***************************************************************************)
Boot(vec, probes) ==
  /\ config \in Configs
  /\ now = WindowStart(config.timezone)
  /\ groups = <<>>
  /\ messages = {}
  /\ summaries = {}
  /\ nextUuid = 1
  /\ vecAvailable \in vec
  /\ embeddings = <<>>
  /\ embedTasks = {}
  /\ unhandled = {}
  /\ warnings = {}
  /\ received = {}
  /\ timers = {}
  /\ interval = NoTimer
  /\ lastRunDate = Absent
  /\ nextTimer = 1
  /\ schedRuns = [s \in SchedSlots |-> SchedIdle]
  /\ cmdRuns = [s \in CmdSlots |-> CmdIdle]
  /\ threw = {}
  /\ ranOn = Absent
  /\ ranBy = NoTimer
  /\ lastReturn = Absent
  /\ lastRun = Absent
  /\ lastReply = Absent
  /\ search = SearchIdle
  /\ dbOpen = TRUE
  /\ probe \in probes

\* sqlite-vec did not load: tryLoadVec left vecAvailable false
Init == Boot({FALSE}, {NoProbe})

\* sqlite-vec loaded or not
InitEmbed == Boot(BOOLEAN, {NoProbe})

Ticks == \E h \in timers : Tick(h)

SchedSteps ==
  \/ \E s \in SchedSlots : SchedCall(s)
  \/ \E s \in SchedSlots, summaryText \in Texts : SchedBackendOk(s, summaryText)
  \/ \E s \in SchedSlots : SchedBackendFail(s)

CmdSteps ==
  \/ \E s \in CmdSlots, ctx \in CmdCtxs : CmdStart(s, ctx)
  \/ \E s \in CmdSlots : CmdCall(s)
  \/ \E s \in CmdSlots, summaryText \in Texts : CmdBackendOk(s, summaryText)
  \/ \E s \in CmdSlots : CmdBackendFail(s)

Next ==
  \/ AdvanceClock(MaxClockDays)
  \/ Deliver(MaxMessages)
  \/ Start(MaxStarts)
  \/ Stop
  \/ Ticks
  \/ SchedSteps
  \/ CmdSteps

Spec == Init /\ [][Next]_vars

NextIngest ==
  \/ AdvanceClock(IngestMaxClockDays)
  \/ Deliver(IngestMaxMessages)
  \/ CmdSteps

SpecIngest == Init /\ [][NextIngest]_vars

NextSched ==
  \/ AdvanceClock(SchedMaxClockDays)
  \/ Deliver(SchedMaxMessages)
  \/ Start(SchedMaxStarts)
  \/ Stop
  \/ Ticks
  \/ SchedSteps

SpecSched == Init /\ [][NextSched]_vars

EmbedSteps ==
  \/ \E messageId \in embedTasks, vec \in Vectors : EmbedResolve(messageId, vec)
  \/ \E messageId \in embedTasks : EmbedReject(messageId)

SearchSteps ==
  \/ \E ctx \in SearchCtxs : SearchStart(ctx)
  \/ \E queryVec \in QueryVectors : SearchEmbedOk(queryVec)
  \/ SearchEmbedFail

\* capture with its embedding step, and the search command
NextEmbed ==
  \/ AdvanceClock(EmbedMaxClockDays)
  \/ Deliver(EmbedMaxMessages)
  \/ EmbedSteps
  \/ SearchSteps

SpecEmbed == InitEmbed /\ [][NextEmbed]_vars

\* the transcripts formatTranscript may produce: runs of a letter and of the
\* line break, of lengths around the half and the whole of the budget
TranscriptUnits == {"a", "\n"}

TranscriptRunLengths ==
  {1, TRANSCRIPT_BUDGET \div 2 - 1, TRANSCRIPT_BUDGET \div 2, TRANSCRIPT_BUDGET \div 2 + 1,
   TRANSCRIPT_BUDGET, TRANSCRIPT_BUDGET + 1}

Transcripts ==
  { str \in UNION { [1..n -> TranscriptUnits \X TranscriptRunLengths] :
                      n \in 0..MaxTranscriptRuns } :
      \A i \in 1..(Len(str) - 1) : str[i][1] /= str[i + 1][1] }

InitTranscript ==
  Boot({FALSE}, { [fn |-> "generateSummary", arg |-> transcript, applied |-> FALSE,
                   out |-> <<>>] : transcript \in Transcripts })

\* generateSummary(config, messages, logger) up to the call of the provider
GenerateSummary ==
  /\ probe.fn = "generateSummary"
  /\ ~probe.applied
  /\ probe' = [probe EXCEPT !.applied = TRUE,
                            !.out = generateSummaryTranscript(probe.arg)]
  /\ UNCHANGED <<config, dbOpen, now, search, storeVars, captureVars, schedVars, cmdRuns,
                 threw, lastReturn, lastRun, lastReply>>

NextTranscript == GenerateSummary

SpecTranscript == InitTranscript /\ [][NextTranscript]_vars

\* the zones whose offset from UTC never changes
FixedOffsetZones ==
  {"UTC", "Etc/GMT-2", "Asia/Kolkata", "Asia/Kathmandu", "Pacific/Marquesas",
   "Etc/GMT+12", "Pacific/Kiritimati"}

\* the dates asked for: the days from the end of a year, from the end of a
\* February of a leap year, and from the middle of June
SummaryDates ==
  { CivilFromDays(DaysFromCivil(first[1], first[2], first[3]) + k) :
      first \in {<<2023, 12, 29>>, <<2024, 2, 26>>, <<2024, 6, 14>>},
      k \in 0..MaxDateSpan }

\* generateAndStoreSummary: dayStart and dayEnd
DayRange(dateStr, timezone) ==
  The({ [dayStart |-> dayStart, dayEnd |-> dayStart + DAY]
        : dayStart \in {midnightUtcForDate(dateStr, timezone)} })

InitDayRange ==
  Boot({FALSE}, { [fn |-> "midnightUtcForDate", arg |-> <<dateStr, timezone>>,
                   applied |-> FALSE, out |-> [dayStart |-> 0, dayEnd |-> 0]]
                  : dateStr \in SummaryDates, timezone \in FixedOffsetZones })

\* const dayStart = midnightUtcForDate(date, config.timezone); const dayEnd = ...
ResolveDayRange ==
  /\ probe.fn = "midnightUtcForDate"
  /\ ~probe.applied
  /\ probe' = [probe EXCEPT !.applied = TRUE,
                            !.out = DayRange(probe.arg[1], probe.arg[2])]
  /\ UNCHANGED <<config, dbOpen, now, search, storeVars, captureVars, schedVars, cmdRuns,
                 threw, lastReturn, lastRun, lastReply>>

NextDayRange == ResolveDayRange

SpecDayRange == InitDayRange /\ [][NextDayRange]_vars

\* the service from its start to after its stop.  A request to the backend
\* ends, with an answer or with an error, and the event loop runs the
\* continuation of tick(): the steps of a run in flight are taken in the end.
NextService ==
  \/ AdvanceClock(ServiceMaxClockDays)
  \/ Deliver(ServiceMaxMessages)
  \/ Start(ServiceMaxStarts)
  \/ ServiceStop
  \/ Ticks
  \/ SchedSteps

SpecService == Init /\ [][NextService]_vars /\ WF_vars(SchedSteps)

\* the scheduler across restarts of the process
NextRestart ==
  \/ AdvanceClock(RestartMaxClockDays)
  \/ Deliver(RestartMaxMessages)
  \/ Start(RestartMaxStarts)
  \/ Restart
  \/ Ticks
  \/ SchedSteps

SpecRestart == Init /\ [][NextRestart]_vars

\* the rows a groups table may hold for a jid, the tables built of them, and
\* the arguments of upsertGroup
GroupRows ==
  [name : {NULL, "Family", "Old"},
   first_seen : {WindowStart("UTC") - DAY},
   last_message : {WindowStart("UTC") - DAY, WindowStart("UTC") - HOUR},
   message_count : 1..MaxStoredCount]

GroupTables ==
  UNION { [jids -> GroupRows] : jids \in SUBSET {"g1@g.us", "g2@g.us"} }

UpsertArgs ==
  { <<g, "g1@g.us", name, t>> :
      g \in GroupTables, name \in {NULL, "Family", ""},
      t \in {WindowStart("UTC"), WindowStart("UTC") + MINUTE} }

InitUpsert ==
  Boot({FALSE}, { [fn |-> "upsertGroup", arg |-> arg, applied |-> FALSE, out |-> <<>>]
                  : arg \in UpsertArgs })

\* db.upsertGroup(jid, name) at the instant t
UpsertGroup ==
  /\ probe.fn = "upsertGroup"
  /\ ~probe.applied
  /\ probe' = [probe EXCEPT !.applied = TRUE,
                            !.out = upsertGroup(probe.arg[1], probe.arg[2],
                                                probe.arg[3], probe.arg[4])]
  /\ UNCHANGED <<config, dbOpen, now, search, storeVars, captureVars, schedVars, cmdRuns,
                 threw, lastReturn, lastRun, lastReply>>

NextUpsert == UpsertGroup

SpecUpsert == InitUpsert /\ [][NextUpsert]_vars

\* the vectors of the declared width, the tables message_embeddings may hold
\* (none without sqlite-vec: the table is created when it loads), and the
\* arguments of insertEmbedding
StoredVectors == {<<1, 0>>, <<0, 1>>}

EmbeddingTables ==
  UNION { [ids -> StoredVectors] : ids \in SUBSET (1..MaxEmbeddingIds) }

InsertEmbeddingArgs ==
  { <<available, es, messageId, embedding>> :
      available \in BOOLEAN, es \in EmbeddingTables,
      messageId \in 1..MaxEmbeddingIds,
      embedding \in {<<>>, <<1>>, <<1, 0>>, <<1, 1>>, <<1, 0, 0>>} }

InitInsertEmbedding ==
  Boot({FALSE},
       { [fn |-> "insertEmbedding", arg |-> arg, applied |-> FALSE, out |-> <<>>]
         : arg \in { a \in InsertEmbeddingArgs : ~a[1] => a[2] = <<>> } })

\* db.insertEmbedding(messageId, embedding)
InsertEmbedding ==
  /\ probe.fn = "insertEmbedding"
  /\ ~probe.applied
  /\ probe' = [probe EXCEPT !.applied = TRUE,
                            !.out = insertEmbeddingCall(probe.arg[1], probe.arg[2],
                                                        probe.arg[3], probe.arg[4])]
  /\ UNCHANGED <<config, dbOpen, now, search, storeVars, captureVars, schedVars, cmdRuns,
                 threw, lastReturn, lastRun, lastReply>>

NextInsertEmbedding == InsertEmbedding

SpecInsertEmbedding == InitInsertEmbedding /\ [][NextInsertEmbedding]_vars

\* capture over every metadata the type of the event admits
NextCapture ==
  \/ AdvanceClock(CaptureMaxClockDays)
  \/ Deliver(CaptureMaxMessages)
  \/ DeliverUnserializable(CaptureMaxUpserts)

SpecCapture == Init /\ [][NextCapture]_vars

(***************************************************************************)
(* Properties.  A call of generateAndStoreSummary begins in a SchedCall or *)
(* CmdCall step, for the key (groupJid, date) of the frame that takes the  *)
(* step; it invokes the backend when that step leaves the frame awaiting.  *)
(***************************************************************************)
SchedKey(s) == <<schedRuns[s].all[schedRuns[s].i], schedRuns[s].date>>

CmdKey(s) == <<cmdRuns[s].all[cmdRuns[s].i].jid, cmdRuns[s].date>>

SchedInvokes(s) == SchedCall(s) /\ schedRuns'[s].pc = "await"

CmdInvokes(s) == CmdCall(s) /\ cmdRuns'[s].pc = "await"

\* the keys with a stored row, and the keys for which a call that invoked the
\* backend has returned or thrown
StoredKeys == { <<r.group_jid, r.date>> : r \in summaries }

\* the keys for which a call of generateAndStoreSummary threw
ThrewKeys == { <<t[1], t[2]>> : t \in threw }

InvokedKeys == StoredKeys \cup ThrewKeys

\* what a call that begins while the row of key is stored must do: return the
\* stored text in the same step
ReturnsStored(key) ==
  lastReturn' = Returned(key[1], key[2], "hit", getSummary(key[1], key[2]).summary_text)

\* C1 (as stated): for any (groupJid, date), of two sequential calls of
\* generateAndStoreSummary at most one invokes the backend: a call that begins
\* after a call for the same key invoked the backend and returned or threw
\* does not invoke the backend.
C1_AtMostOneInvocation ==
  [][ /\ \A s \in SchedSlots : SchedInvokes(s) => SchedKey(s) \notin InvokedKeys
      /\ \A s \in CmdSlots : CmdInvokes(s) => CmdKey(s) \notin InvokedKeys ]_vars

\* C1 (amended): when an earlier call stored a summary for (groupJid, date), a
\* later call for that key returns exactly the stored text and does not
\* invoke the backend.
C1_StoredIsReturned ==
  [][ /\ \A s \in SchedSlots :
           (SchedCall(s) /\ SchedKey(s) \in StoredKeys)
             => (ReturnsStored(SchedKey(s)) /\ schedRuns'[s].pc /= "await")
      /\ \A s \in CmdSlots :
           (CmdCall(s) /\ CmdKey(s) \in StoredKeys)
             => (ReturnsStored(CmdKey(s)) /\ cmdRuns'[s].pc /= "await") ]_vars

\* a call has just returned the text "S" that an earlier call stored
C1_Witness ==
  /\ lastReturn /= Absent
  /\ lastReturn.kind = "hit"
  /\ lastReturn.ret = "S"
  /\ <<lastReturn.jid, lastReturn.date>> \in StoredKeys

\* C2: in every reachable state at most one daily_summaries row exists for
\* each (groupJid, date).
C2_OneSummaryPerKey ==
  \A r1, r2 \in summaries :
     (r1.group_jid = r2.group_jid /\ r1.date = r2.date) => r1 = r2

\* insertSummary has run more often than there are rows: a second write for a
\* key replaced the row of the first (identities are drawn by insertMessage
\* and insertSummary alone, and message rows are never deleted)
C2_Witness ==
  /\ summaries /= {}
  /\ nextUuid - 1 - Cardinality(messages) > Cardinality(summaries)

\* the local calendar date of the instant now, and the date before it
LocalToday == FormatDate(config.timezone, now)

PreviousLocalDate ==
  CivilFromDays(DaysFromCivil(LocalToday[1], LocalToday[2], LocalToday[3]) - 1)

\* a registered timer fires in the trigger minute
TickAtTrigger ==
  /\ currentTimeInTimezone(config.timezone) = config.scheduledTime
  /\ \E h \in timers : Tick(h)

\* C3: a tick at the trigger time starts the per-group summary run exactly
\* when no run was started earlier on the same local day: a second tick on
\* that day starts none, a tick on the following local day starts one again.
C3_OncePerLocalDay ==
  [][ TickAtTrigger => ((lastRunDate' /= lastRunDate) <=> (ranOn /= LocalToday)) ]_vars

\* C4: the messages table holds one row per distinct event the capture
\* handler archived, however often the event was delivered, and the
\* message_count of a group is at most the number of distinct events archived
\* for the group.
C4_OneRowPerIdentity ==
  /\ Cardinality(messages) = Cardinality(received)
  /\ \A jid \in DOMAIN groups :
        groups[jid].message_count
          <= Cardinality({ d \in received : d[2].conversationId = jid })

\* C5: a scheduler run that ends has invoked the pipeline for every group of
\* the run, in order, whatever the groups the pipeline threw for; and a run
\* in flight always has a group left to call.
C5_BatchNotAborted ==
  /\ lastRun /= Absent => lastRun.called = lastRun.all
  /\ \A s \in SchedSlots :
        schedRuns[s].pc /= "idle" => schedRuns[s].i \in 1..Len(schedRuns[s].all)

\* a run over two groups has ended: the pipeline threw for the first and was
\* invoked for the second
C5_Witness ==
  /\ lastRun /= Absent
  /\ Len(lastRun.all) = 2
  /\ lastRun.all[1] \in lastRun.failed
  /\ lastRun.called = lastRun.all

\* the messages of key's day, as the pipeline fetches them
MessagesOfKey(key) == messagesOfDay(key[1], midnightUtcForDate(key[2], config.timezone))

\* C6: when the backend fails the call throws and writes no summary row; a
\* call that begins while the key has no row and its day has messages invokes
\* the backend again; and when the backend answers, the answer is stored.
C6_FailureNotStored ==
  [][ /\ \A s \in SchedSlots :
           /\ SchedBackendFail(s)
                => /\ summaries' = summaries
                   /\ lastReturn' = Returned(SchedKey(s)[1], SchedKey(s)[2], "threw", NULL)
           /\ (SchedCall(s) /\ SchedKey(s) \notin StoredKeys /\ MessagesOfKey(SchedKey(s)) /= {})
                => schedRuns'[s].pc = "await"
           /\ \A summaryText \in Texts :
                SchedBackendOk(s, summaryText)
                  => \E r \in summaries' :
                        <<r.group_jid, r.date, r.summary_text>>
                          = <<SchedKey(s)[1], SchedKey(s)[2], summaryText>>
      /\ \A s \in CmdSlots :
           /\ CmdBackendFail(s)
                => /\ summaries' = summaries
                   /\ lastReturn' = Returned(CmdKey(s)[1], CmdKey(s)[2], "threw", NULL)
           /\ (CmdCall(s) /\ CmdKey(s) \notin StoredKeys /\ MessagesOfKey(CmdKey(s)) /= {})
                => cmdRuns'[s].pc = "await"
           /\ \A summaryText \in Texts :
                CmdBackendOk(s, summaryText)
                  => \E r \in summaries' :
                        <<r.group_jid, r.date, r.summary_text>>
                          = <<CmdKey(s)[1], CmdKey(s)[2], summaryText>> ]_vars

\* a call has just stored the summary of a key for which an earlier call threw
C6_Witness ==
  /\ lastReturn /= Absent
  /\ lastReturn.kind = "stored"
  /\ <<lastReturn.jid, lastReturn.date>> \in ThrewKeys
  /\ <<lastReturn.jid, lastReturn.date>> \in StoredKeys

\* C7: a call that begins for a key with no stored row and no message in the
\* range of its date returns the empty text in the same step, without
\* invoking the backend, and writes no row: getSummary still answers absent.
C7_EmptyDay ==
  [][ /\ \A s \in SchedSlots :
           (SchedCall(s) /\ SchedKey(s) \notin StoredKeys /\ MessagesOfKey(SchedKey(s)) = {})
             => /\ lastReturn' = Returned(SchedKey(s)[1], SchedKey(s)[2], "empty", "")
                /\ schedRuns'[s].pc /= "await"
                /\ summaries' = summaries
      /\ \A s \in CmdSlots :
           (CmdCall(s) /\ CmdKey(s) \notin StoredKeys /\ MessagesOfKey(CmdKey(s)) = {})
             => /\ lastReturn' = Returned(CmdKey(s)[1], CmdKey(s)[2], "empty", "")
                /\ cmdRuns'[s].pc /= "await"
                /\ summaries' = summaries ]_vars

\* a call has just returned the empty text for a group that has messages on
\* other days, and its key has no row
C7_Witness ==
  /\ lastReturn /= Absent
  /\ lastReturn.kind = "empty"
  /\ lastReturn.ret = ""
  /\ lastReturn.jid \in DOMAIN groups
  /\ getSummary(lastReturn.jid, lastReturn.date) = Absent

\* the keys a call in flight is about to write
AwaitedKeys ==
  { SchedKey(s) : s \in { t \in SchedSlots : schedRuns[t].pc = "await" } }
    \cup { CmdKey(s) : s \in { t \in CmdSlots : cmdRuns[t].pc = "await" } }

\* C8: once a summary is stored for a key and every call that began before is
\* over, no step changes the row of the key, and no call that begins later
\* comes to write it, whatever messages are inserted for its day.
C8_StoredIsFrozen ==
  [][ \A key \in StoredKeys \ AwaitedKeys :
         /\ getSummary(key[1], key[2]) \in summaries'
         /\ key \notin AwaitedKeys' ]_vars

\* a call has just returned the stored summary of a day that now has more
\* messages than the summary counted
C8_Witness ==
  /\ lastReturn /= Absent
  /\ lastReturn.kind = "hit"
  /\ Cardinality(MessagesOfKey(<<lastReturn.jid, lastReturn.date>>))
       > getSummary(lastReturn.jid, lastReturn.date).message_count

\* C9: when stop() returns no timer is registered.
C9_IdleAfterStop == [][ Stop => timers' = {} ]_vars

\* C10: after a tick in the trigger minute the date the scheduler has
\* processed is the local calendar date before the local date of the tick.
C10_PreviousLocalDate ==
  [][ TickAtTrigger => lastRunDate' = PreviousLocalDate ]_vars

\* C11: a failure of the embedding step of a captured message, of the embed
\* call or of the insertEmbedding write that follows it, is logged and is
\* never left as an unhandled error.
C11_EmbeddingFailureHandled == unhandled = {}

\* an event the handler archives
ArchivableDelivery ==
  <<Event("hi", NoTimestamp, Absent), HookCtx("whatsapp", "g2@g.us")>>

\* C12: the capture handler returns with the group upserted and the message
\* stored before the embedding is computed or written, and an embedding that
\* is pending or has failed neither delays nor prevents the ingestion of a
\* later message: in every state the handler can archive a further event.
C12_IngestBeforeEmbedding ==
  /\ [](ENABLED (/\ Capture(ArchivableDelivery[1], ArchivableDelivery[2])
                 /\ messages' /= messages))
  /\ [][messages' /= messages =>
          /\ \E m \in messages' \ messages :
               /\ m.id = nextUuid
               /\ m.group_jid \in DOMAIN groups'
               /\ groups'[m.group_jid].last_message = now
               /\ m.id \notin DOMAIN embeddings'
               /\ vecAvailable => m.id \in embedTasks'
          /\ embeddings' = embeddings]_vars

C12_Witness ==
  \E m1, m2 \in messages :
    /\ m1.id < m2.id
    /\ m1.id \in embedTasks
    /\ m2.group_jid \in DOMAIN groups
    /\ m2.id \in embedTasks
    /\ m2.id \notin DOMAIN embeddings

\* C13: when generateAndStoreSummary fails for a group of the summary
\* command, the reply of the command reports a failure.
C13_FailureReported ==
  (/\ lastReply /= Absent
   /\ "failed" \in DOMAIN lastReply
   /\ lastReply.failed /= {}) => lastReply.kind = "failed"

\* the pipeline threw for key in a run of the scheduler
FailedInRun(key) == <<key[1], key[2], "tick">> \in threw

\* C14: a run of the scheduler in which the pipeline fails for a group still
\* counts for its date: the tick that starts the run records the date, the
\* failing call neither clears it nor writes a row, and a later tick of the
\* same local day starts no run; a later summary command for the failed key,
\* finding no row, invokes the backend, and its answer is stored.
C14_FailedRunCountsAsHandled ==
  [][ /\ \A s \in SchedSlots :
           /\ SchedBackendFail(s)
                => lastRunDate' = lastRunDate /\ summaries' = summaries
           /\ (schedRuns[s].pc = "idle" /\ schedRuns'[s].pc = "loop")
                => lastRunDate' = schedRuns'[s].date
      /\ (TickAtTrigger /\ ranOn = LocalToday)
           => /\ lastRunDate' = lastRunDate
              /\ schedRuns' = schedRuns
              /\ lastRun' = Absent
      /\ \A s \in CmdSlots :
           /\ (/\ CmdCall(s)
               /\ FailedInRun(CmdKey(s))
               /\ CmdKey(s) \notin StoredKeys
               /\ MessagesOfKey(CmdKey(s)) /= {})
                => cmdRuns'[s].pc = "await"
           /\ \A summaryText \in Texts :
                (CmdBackendOk(s, summaryText) /\ FailedInRun(CmdKey(s)))
                  => /\ CmdKey(s) \in { <<r.group_jid, r.date>> : r \in summaries' }
                     /\ lastReturn' = Returned(CmdKey(s)[1], CmdKey(s)[2], "stored",
                                               summaryText) ]_vars

\* the summary command has just stored and replied the summary of a key for
\* which the run of the scheduler that handled the date had failed
C14_Witness ==
  /\ lastReturn /= Absent
  /\ lastReturn.kind = "stored"
  /\ FailedInRun(<<lastReturn.jid, lastReturn.date>>)
  /\ lastRunDate = lastReturn.date
  /\ lastReply /= Absent
  /\ lastReply.kind = "summaries"
  /\ <<lastReturn.jid, lastReturn.date>> \in StoredKeys

\* C15: every stored message references an existing group, and no step
\* removes a group.
C15_MessageHasGroup ==
  /\ [](\A m \in messages : m.group_jid \in DOMAIN groups)
  /\ [][DOMAIN groups \subseteq DOMAIN groups']_vars

\* messages of two groups are stored, each with its group row
C15_Witness ==
  /\ Cardinality({ m.group_jid : m \in messages }) = 2
  /\ { m.group_jid : m \in messages } = DOMAIN groups

\* the completed upsertGroup calls for jid: each is followed by the insert of
\* one message row under a fresh identity
UpsertCalls(jid) == Cardinality({ m \in messages : m.group_jid = jid })

\* C16: no increment of message_count is lost: the count of a group is the
\* number of completed upsertGroup calls for its jid, each call adds one to
\* the count of its group alone and sets last_message to the time of the
\* call, and no other step changes a group.
C16_NoLostIncrement ==
  /\ [](\A jid \in DOMAIN groups : groups[jid].message_count = UpsertCalls(jid))
  /\ [][groups' /= groups =>
          \E jid \in DOMAIN groups' :
            /\ groups'[jid].message_count
                 = (IF jid \in DOMAIN groups THEN groups[jid].message_count ELSE 0) + 1
            /\ groups'[jid].last_message = now
            /\ UpsertCalls(jid)' = UpsertCalls(jid) + 1
            /\ \A other \in DOMAIN groups \ {jid} : groups'[other] = groups[other]]_vars

\* the handler has archived two events of one group
C16_Witness ==
  \E jid \in DOMAIN groups :
    /\ groups[jid].message_count = 2
    /\ UpsertCalls(jid) = 2
    /\ groups[jid].last_message > groups[jid].first_seen

\* C17 as stated: with the vector capability disabled every invocation of the
\* search command replies "unavailable".
C17_UnavailableWhenDisabled ==
  [][ \A ctx \in SearchCtxs :
        (SearchStart(ctx) /\ ~vecAvailable) => lastReply' = [kind |-> "unavailable"] ]_vars

\* C17, amended: with the vector capability disabled an invocation outside a
\* group chat replies "unavailable" and one inside a group chat replies the
\* empty text, and neither calls the embedding backend; with the capability
\* enabled the handler replies or awaits the backend, and for every outcome of
\* the backend (a vector of any width, none, or a failure) it replies.
C17_SearchAlwaysReplies ==
  /\ [](~vecAvailable => search = SearchIdle)
  /\ [][ /\ \A ctx \in SearchCtxs :
              /\ (SearchStart(ctx) /\ ~vecAvailable)
                   => /\ lastReply' = [kind |-> IF isGroupContext(ctx)
                                                THEN "blank" ELSE "unavailable"]
                      /\ search' = SearchIdle
              /\ SearchStart(ctx)
                   => \/ search'.pc = "await" /\ lastReply' = Absent
                      \/ search' = SearchIdle /\ lastReply' /= Absent
         /\ \A queryVec \in QueryVectors :
              SearchEmbedOk(queryVec)
                => /\ lastReply' /= Absent
                   /\ lastReply'.kind \in {"no-results", "results", "search-failed"}
                   /\ search' = SearchIdle
                   /\ unhandled' = unhandled
         /\ SearchEmbedFail
              => /\ lastReply' = [kind |-> "search-failed"]
                 /\ search' = SearchIdle
                 /\ unhandled' = unhandled ]_vars

\* with the capability disabled the command has just replied "unavailable"
C17_Witness ==
  /\ ~vecAvailable
  /\ lastReply /= Absent
  /\ lastReply.kind = "unavailable"
  /\ search = SearchIdle

RECURSIVE UnitAt(_, _)
\* str[p - 1]: the code unit at position p, counted from 1
UnitAt(str, p) ==
  IF p <= str[1][2] THEN str[1][1] ELSE UnitAt(Tail(str), p - str[1][2])

\* the positions at which a run of str ends, and the positions after them
RunEnds(str) ==
  LET ends == { StrLength(SubSeq(str, 1, k)) : k \in 0..Len(str) }
  IN  ends \cup { e + 1 : e \in ends }

\* C18: a transcript longer than the budget is sent as its first 100,000
\* code units followed by the truncation marker, so the text sent has the
\* length of the budget plus that of the marker and ends with the marker; a
\* transcript within the budget is sent unchanged.
C18_TruncatedToBudget ==
  (probe.fn = "generateSummary" /\ probe.applied) =>
    LET transcript == probe.arg
        sent       == probe.out
        marker     == StrLength(TRUNCATION_MARKER)
    IN  IF StrLength(transcript) > TRANSCRIPT_BUDGET
        THEN /\ StrLength(sent) = TRANSCRIPT_BUDGET + marker
             /\ \A p \in (RunEnds(transcript) \cup RunEnds(sent)) \cap (1..TRANSCRIPT_BUDGET) :
                   UnitAt(sent, p) = UnitAt(transcript, p)
             /\ \A k \in 1..marker :
                   UnitAt(sent, TRANSCRIPT_BUDGET + k) = UnitAt(TRUNCATION_MARKER, k)
        ELSE sent = transcript

\* a transcript one code unit over the budget, ending in a line break, was cut
C18_Witness ==
  /\ probe.fn = "generateSummary"
  /\ probe.applied
  /\ StrLength(probe.arg) = TRANSCRIPT_BUDGET + 1
  /\ UnitAt(probe.arg, TRANSCRIPT_BUDGET) = "\n"
  /\ StrLength(probe.out) = TRANSCRIPT_BUDGET + StrLength(TRUNCATION_MARKER)

\* C19: for every date and every zone of fixed offset, of whole hours or
\* not, midnightUtcForDate answers the instant of 00:00:00 of the date in the
\* zone, which is the UTC midnight of the date less the offset, and the range
\* of the day ends 86,400,000 ms later; for UTC+2 and 2024-06-15 the range is
\* [2024-06-14T22:00:00Z, 2024-06-15T22:00:00Z).
C19_LocalMidnight ==
  (probe.fn = "midnightUtcForDate" /\ probe.applied) =>
    LET dateStr  == probe.arg[1]
        timezone == probe.arg[2]
    IN  /\ probe.out.dayStart = DateUTC(dateStr, 0) - ZoneOffset(timezone, 0)
        /\ probe.out.dayEnd = probe.out.dayStart + 24 * HOUR
        /\ FormatDate(timezone, probe.out.dayStart) = dateStr
        /\ LocalSecondOfDay(timezone, probe.out.dayStart) = 0
        /\ (dateStr = <<2024, 6, 15>> /\ timezone = "Etc/GMT-2")
             => /\ probe.out.dayStart = DateUTC(<<2024, 6, 14>>, 22)
                /\ probe.out.dayEnd = DateUTC(<<2024, 6, 15>>, 22)

\* the range of 2024-06-15 in the zone two hours ahead of UTC was resolved
C19_Witness ==
  /\ probe.fn = "midnightUtcForDate"
  /\ probe.applied
  /\ probe.arg = <<<<2024, 6, 15>>, "Etc/GMT-2">>
  /\ probe.out.dayStart = DateUTC(<<2024, 6, 14>>, 22)

\* the rows of key after the step
RowsOfKeyAfter(key) ==
  { r \in summaries' : r.group_jid = key[1] /\ r.date = key[2] }

\* the one row of key after the step is the row this step's insertSummary wrote
WroteLast(key, summaryText) ==
  /\ Cardinality(RowsOfKeyAfter(key)) = 1
  /\ \A r \in RowsOfKeyAfter(key) : r.id = nextUuid /\ r.summary_text = summaryText

\* C20: when a run of the scheduler and a summary command are in flight for
\* one key and neither has written, the one that begins while the other awaits
\* the backend finds no row and invokes the backend as well; each write then
\* leaves exactly one row for the key, the row of the writer that wrote last.
C20_LastWriterWins ==
  [][ \A s \in SchedSlots, c \in CmdSlots :
        /\ (/\ SchedCall(s)
            /\ cmdRuns[c].pc = "await"
            /\ CmdKey(c) = SchedKey(s)
            /\ SchedKey(s) \notin StoredKeys) => schedRuns'[s].pc = "await"
        /\ (/\ CmdCall(c)
            /\ schedRuns[s].pc = "await"
            /\ SchedKey(s) = CmdKey(c)
            /\ CmdKey(c) \notin StoredKeys) => cmdRuns'[c].pc = "await"
        /\ \A summaryText \in Texts :
             /\ SchedBackendOk(s, summaryText) => WroteLast(SchedKey(s), summaryText)
             /\ CmdBackendOk(c, summaryText) => WroteLast(CmdKey(c), summaryText) ]_vars

\* both callers have written the one key that has messages: the second write
\* has just returned, and the single row is the row it wrote
C20_Witness ==
  /\ lastReturn /= Absent
  /\ lastReturn.kind = "stored"
  /\ nextUuid - 1 - Cardinality(messages) = 2
  /\ Cardinality(summaries) = 1
  /\ \A r \in summaries :
       /\ r.id = nextUuid - 1
       /\ <<r.group_jid, r.date, r.summary_text>>
            = <<lastReturn.jid, lastReturn.date, lastReturn.ret>>

\* C21: a stop of the service does not touch a run of tick() in flight: the
\* run goes on to invoke the pipeline for every group of its date that is
\* left, and then it ends.
C21_RunSurvivesStop ==
  /\ [][ServiceStop => schedRuns' = schedRuns]_vars
  /\ [](~dbOpen =>
          /\ lastRun /= Absent => lastRun.called = lastRun.all
          /\ \A s \in SchedSlots :
               schedRuns[s].pc /= "idle"
                 => /\ schedRuns[s].i \in 1..Len(schedRuns[s].all)
                    /\ Len(schedRuns[s].called)
                         = schedRuns[s].i - (IF schedRuns[s].pc = "loop" THEN 1 ELSE 0))
  /\ \A s \in SchedSlots :
       (~dbOpen /\ schedRuns[s].pc /= "idle") ~> (schedRuns[s].pc = "idle")

\* a run over two groups has just ended after the service was stopped: the
\* pipeline was invoked for both groups, for the second after the stop
C21_Witness ==
  /\ ~dbOpen
  /\ lastRun /= Absent
  /\ Len(lastRun.all) = 2
  /\ lastRun.called = lastRun.all
  /\ lastRun.all[1] \notin lastRun.failed
  /\ lastRun.all[2] \in lastRun.failed

\* C22: a restart of the process empties lastRunDate, so a tick in the
\* trigger minute runs the date again although it was run before the restart;
\* in the run, a call for a group whose summary is stored returns the stored
\* text without invoking the backend and leaves the table as it is, and a
\* call for a group without a stored summary invokes the backend.
C22_RerunAfterRestart ==
  [][ /\ Restart => lastRunDate' = Absent
      /\ (TickAtTrigger /\ lastRunDate = Absent)
           => /\ lastRunDate' = getYesterdayDate(config.timezone)
              /\ \/ lastRun' /= Absent
                 \/ \E s \in SchedSlots : schedRuns[s].pc = "idle" /\ schedRuns'[s].pc = "loop"
      /\ \A s \in SchedSlots :
           /\ (SchedCall(s) /\ SchedKey(s) \in StoredKeys)
                => /\ summaries' = summaries
                   /\ schedRuns'[s].pc /= "await"
                   /\ lastReturn' = Returned(SchedKey(s)[1], SchedKey(s)[2], "hit",
                                             getSummary(SchedKey(s)[1], SchedKey(s)[2]).summary_text)
           /\ (SchedCall(s) /\ SchedKey(s) \notin StoredKeys /\ MessagesOfKey(SchedKey(s)) /= {})
                => schedRuns'[s].pc = "await" ]_vars

\* in the run after a restart the call for the first of two groups has just
\* returned the summary stored before the restart, and the second group has
\* no summary yet
C22_Witness ==
  /\ lastReturn /= Absent
  /\ lastReturn.kind = "hit"
  /\ \E s \in SchedSlots :
       /\ schedRuns[s].pc = "loop"
       /\ schedRuns[s].i = 2
       /\ <<schedRuns[s].all[1], schedRuns[s].date>> \in StoredKeys
       /\ SchedKey(s) \notin StoredKeys

\* C23: upsertGroup on a jid without a row creates the row with count 1 and
\* first_seen = last_message = now; on a jid with a row it adds 1 to the count,
\* sets last_message to now, keeps first_seen, and sets the name to the name
\* supplied unless that is null, in which case the stored name stays; the
\* rows of other groups stay as they are.
C23_UpsertGroup ==
  (probe.fn = "upsertGroup" /\ probe.applied) =>
    LET g    == probe.arg[1]
        jid  == probe.arg[2]
        name == probe.arg[3]
        t    == probe.arg[4]
        out  == probe.out
    IN  /\ DOMAIN out = DOMAIN g \cup {jid}
        /\ \A other \in DOMAIN g \ {jid} : out[other] = g[other]
        /\ out[jid].last_message = t
        /\ IF jid \in DOMAIN g
           THEN /\ out[jid].message_count = g[jid].message_count + 1
                /\ out[jid].first_seen = g[jid].first_seen
                /\ name /= NULL => out[jid].name = name
                /\ name = NULL => out[jid].name = g[jid].name
           ELSE /\ out[jid].message_count = 1
                /\ out[jid].first_seen = t
                /\ out[jid].name = name

\* a group with a stored name was upserted with a null name and kept its name
C23_Witness ==
  /\ probe.fn = "upsertGroup"
  /\ probe.applied
  /\ probe.arg[2] \in DOMAIN probe.arg[1]
  /\ probe.arg[1][probe.arg[2]].name = "Old"
  /\ probe.arg[3] = NULL
  /\ probe.out[probe.arg[2]].name = "Old"
  /\ probe.out[probe.arg[2]].message_count = MaxStoredCount + 1

C25_RestartedTimerKeepsLastRunDate ==
  [][ /\ (timers' /= timers /\ nextTimer' = nextTimer) => lastRunDate' = lastRunDate
      /\ nextTimer' /= nextTimer => lastRunDate' = lastRunDate
      /\ \A h \in timers :
           (/\ Tick(h)
            /\ currentTimeInTimezone(config.timezone) = config.scheduledTime
            /\ ranBy /= NoTimer
            /\ ranBy < h
            /\ ranOn = LocalToday)
             => /\ lastRunDate' = lastRunDate
                /\ lastRunDate = getYesterdayDate(config.timezone)
                /\ schedRuns' = schedRuns
                /\ summaries' = summaries
                /\ lastRun' = Absent
                /\ ranBy' = ranBy ]_vars

\* the run of today was started by the first timer, the timer was stopped
\* and started again, and the trigger minute is not over
C25_Witness ==
  /\ ranBy = 1
  /\ ranOn = LocalToday
  /\ interval = 2
  /\ timers = {2}
  /\ currentTimeInTimezone(config.timezone) = config.scheduledTime
  /\ lastRunDate = getYesterdayDate(config.timezone)
  /\ \A s \in SchedSlots : schedRuns[s].pc = "idle"

\* C26: after the capture handler has handled any sequence of inbound
\* events, the message_count of every group is the number of rows of the
\* messages table with the jid of the group.
C26_CountIsNumberOfRows ==
  \A jid \in DOMAIN groups :
    Cardinality({ m \in messages : m.group_jid = jid }) = groups[jid].message_count

\* C27: whenever generateAndStoreSummary returns the empty text, no row of
\* daily_summaries exists for (groupJid, date) after the call, whatever text
\* the backend answered with.
C27_EmptyMeansNoRow ==
  (/\ lastReturn /= Absent
   /\ lastReturn.kind \in {"hit", "empty", "stored"}
   /\ lastReturn.ret = "")
    => \A r \in summaries :
         ~(r.group_jid = lastReturn.jid /\ r.date = lastReturn.date)

=========================================================================
